---- MODULE Spec2Model ----
(***************************************************************************)
(* Model of src/dijkstra_notebook.py: the adjacency matrix, the helpers    *)
(* distance and neighbours, and the function dijkstra(matrix,              *)
(* distance_vector) with its main loop and its path-printing pass.         *)
(* One action is one loop iteration of the source.                         *)
(***************************************************************************)
EXTENDS Bags, FiniteSets, Integers, Sequences, TLC

VARIABLES
    n,                  \* len(matrix), the number of vertices
    matrix,             \* the adjacency matrix, 0 for "no edge" (line 8)
    distance_vector,    \* the caller's distance table (lines 18-19)
    visited,            \* dijkstra: visited (line 29)
    heap,               \* dijkstra: heap, a bag of <<distance, vertex>> (line 30)
    previous,           \* dijkstra: previous (line 31)
    pc,                 \* "call", "loop" (line 33), "recon" (line 53), "done"
    target,             \* dijkstra: target of the printing pass (line 53)
    paths,              \* what the printing pass has printed for each target
    runs,               \* the number of the current call of dijkstra
    shortest_distances, \* what each finished call returned and printed
    current,            \* dijkstra: current of the backward walk (line 59)
    path,               \* dijkstra: path of the backward walk (line 58)
    inserted,           \* the edges (i, j, w) written into matrix so far
    iterations          \* how often the loop of line 33 has run in this call

vars == <<n, matrix, distance_vector, visited, heap, previous,
          pc, target, paths, runs, shortest_distances, current, path, inserted,
          iterations>>

(* ---------------- bounds of the model ---------------- *)

\* largest number of vertices (len(matrix)) of an input graph
MaxN == 3

\* largest edge weight of an input graph
MaxW == 3

\* largest number of non-zero entries written into an input matrix
MaxEdges == 3

\* number of times dijkstra is called on the same matrix
MaxRuns == 2

(* ---------------- values ---------------- *)

\* float("inf"): larger than every sum of weights a run can form
Inf == 1000

\* Python's None; a value x that is not None is kept as <<x>>
None == <<>>

Some(x) == <<x>>

\* the vertex the run starts from: heap = [(0, 0)], distance_vector[0] = 0
Source == 0

Vertices == 0 .. (n - 1)

(* ---------------- input graphs ---------------- *)

\* the weights of an input graph: a light and a heavy edge weight (the
\* source draws them from 1 .. 10)
Weights == {1, MaxW}

Cells(k) == (0 .. (k - 1)) \X (0 .. (k - 1))

\* the k x k matrix whose entries at the cells S are given by f, 0 elsewhere
MatrixOf(k, S, f) ==
    [i \in 0 .. (k - 1) |->
        [j \in 0 .. (k - 1) |-> IF <<i, j>> \in S THEN f[<<i, j>>] ELSE 0]]

\* the sets of at most MaxEdges cells of a k x k matrix a caller may fill
EdgeCells(k) == {T \in SUBSET Cells(k) : Cardinality(T) <= MaxEdges}

\* V = 4 with edges (0,1,1), (0,2,4), (1,2,1), (1,3,5), (2,3,1)
ScenarioMatrix ==
    MatrixOf(4, {<<0, 1>>, <<0, 2>>, <<1, 2>>, <<1, 3>>, <<2, 3>>},
             [c \in {<<0, 1>>, <<0, 2>>, <<1, 2>>, <<1, 3>>, <<2, 3>>} |->
                 IF c = <<0, 2>> THEN 4 ELSE IF c = <<1, 3>> THEN 5 ELSE 1])

\* the cells line 8 may fill: i == j gives 0
OffDiagonal(k) == {c \in Cells(k) : c[1] /= c[2]}

\* the non-zero cells of a matrix after lines 8-9: at most MaxEdges cells
\* off the diagonal, one of them the cell (0, k), k in 1 .. n-1, of line 9
ProgramCells(k) ==
    {T \in SUBSET OffDiagonal(k) :
        /\ Cardinality(T) <= MaxEdges
        /\ \E j \in 1 .. (k - 1) : <<0, j>> \in T}

\* the non-zero cells of a matrix after line 8 alone
Line8Cells(k) == {T \in SUBSET OffDiagonal(k) : Cardinality(T) <= MaxEdges}

\* distance_vector = [float("inf")] * len(matrix); distance_vector[0] = 0;
\* for len(matrix) >= 1 (line 19 raises IndexError on an empty list, and
\* the program never gets there: line 9 raises for n < 2)
FreshDistanceVector(k) == [v \in 0 .. (k - 1) |-> IF v = 0 THEN 0 ELSE Inf]

\* the list a caller passes to dijkstra with a matrix of k rows: [] for an
\* empty matrix, else 0 for the source and inf elsewhere
CallerDistanceVector(k) == IF k = 0 THEN <<>> ELSE FreshDistanceVector(k)

(* ---------------- helpers of the source ---------------- *)

\* a faulty variant of distance: a zero entry is taken for an edge of weight 0
distanceNoSentinel(m, i, j) == Some(m[i][j])

\* def distance(matrix, i, j)
distance(m, i, j) == IF m[i][j] /= 0 THEN Some(m[i][j]) ELSE None

\* def neighbours(matrix, i); the source returns them in ascending order
neighbours(m, i) == {j \in DOMAIN m : distance(m, i, j) /= None}

\* edges = [(i, j, matrix[i][j]) ... if matrix[i][j] != 0]
edges(m) == {<<i, j, m[i][j]>> : i \in DOMAIN m, j \in DOMAIN m} \
            {<<i, j, 0>> : i \in DOMAIN m, j \in DOMAIN m}

\* tuple order of heap entries (distance, vertex)
EntryLE(e, f) == e[1] < f[1] \/ (e[1] = f[1] /\ e[2] <= f[2])

\* a faulty variant of HeapTop: the pop returns the largest entry
HeapTopMax(h) == CHOOSE e \in BagToSet(h) : \A f \in BagToSet(h) : EntryLE(f, e)

\* the entry heapq.heappop returns: the smallest (distance, vertex)
HeapTop(h) == CHOOSE e \in BagToSet(h) : \A f \in BagToSet(h) : EntryLE(e, f)

\* a faulty variant of HeapPopped: the smallest entry is read and left in
\* the heap
HeapPeeked(h) == h

\* heapq.heappop: the heap without one copy of its smallest entry
HeapPopped(h) == h (-) SetToBag({HeapTop(h)})

\* a faulty variant of Alt: current_dist is not added
AltWeightOnly(m, current_dist, u, v) == distance(m, u, v)[1]

\* alt = current_dist + distance(matrix, u, v)
Alt(m, current_dist, u, v) == current_dist + distance(m, u, v)[1]

\* a faulty variant of Improves: any different distance is taken
ImprovesNotEqual(alt, dv, v) == alt /= dv[v]

\* if alt < distance_vector[v]
Improves(alt, dv, v) == alt < dv[v]

\* a faulty variant of Relaxed: both guards of the for loop are missing
RelaxedUnguarded(m, dv, vis, current_dist, u) == neighbours(m, u)

\* the neighbours of u whose entry the for loop of lines 42-49 rewrites;
\* vis already holds u
Relaxed(m, dv, vis, current_dist, u) ==
    {v \in neighbours(m, u) :
        v \notin vis /\ Improves(Alt(m, current_dist, u, v), dv, v)}

\* one more iteration of the loop of line 33; the count stops at V * V + 2,
\* which no call reaches: a matrix has at most V * V edges (see C24)
Tick(i) == IF i < n * n + 2 THEN i + 1 ELSE i

\* a faulty variant of Visit: the set forgets the vertices visited before
VisitOnly(vis, u) == {u}

\* visited.add(u)
Visit(vis, u) == vis \cup {u}

\* distance_vector[v] = alt, for the relaxed neighbours R of u
NewDistance(m, dv, R, current_dist, u) ==
    [v \in DOMAIN dv |-> IF v \in R THEN Alt(m, current_dist, u, v) ELSE dv[v]]

\* a faulty variant of NewPrevious: line 48 is missing
NewPreviousKept(prev, R, u) == prev

\* previous[v] = u, for the relaxed neighbours R of u
NewPrevious(prev, R, u) ==
    [v \in DOMAIN prev |-> IF v \in R THEN Some(u) ELSE prev[v]]

\* a faulty variant of Pushed: every entry is pushed twice
PushedTwice(m, R, current_dist, u) ==
    [e \in {<<Alt(m, current_dist, u, v), v>> : v \in R} |-> 2]

\* a faulty variant of Pushed: the key pushed is the edge's weight
PushedWeight(m, R, current_dist, u) ==
    SetToBag({<<m[u][v], v>> : v \in R})

\* heapq.heappush(heap, (alt, v)), for the relaxed neighbours R of u
Pushed(m, R, current_dist, u) ==
    SetToBag({<<Alt(m, current_dist, u, v), v>> : v \in R})

(* ---------------- path printing ---------------- *)

RECURSIVE Walk(_, _, _)
\* while current is not None: path.append(current); current = previous[current]
\* from current = cur; fuel bounds the unrolling, PathOf is used only where
\* the walk ends
Walk(prev, cur, fuel) ==
    IF cur = None \/ fuel = 0 THEN <<>>
    ELSE <<cur[1]>> \o Walk(prev, prev[cur[1]], fuel - 1)

RECURSIVE WalkEnds(_, _, _)
WalkEnds(prev, cur, fuel) ==
    IF cur = None THEN TRUE
    ELSE IF fuel = 0 THEN FALSE
    ELSE WalkEnds(prev, prev[cur[1]], fuel - 1)

\* path.reverse()
Reverse(s) == [x \in 1 .. Len(s) |-> s[Len(s) + 1 - x]]

PathOf(prev, t) == Reverse(Walk(prev, Some(t), Cardinality(DOMAIN prev) + 1))

NotPrinted == [kind |-> "none", path |-> <<>>]

Unreachable == [kind |-> "unreachable", path |-> <<>>]

(* ---------------- the program ---------------- *)

\* what dijkstra's locals, the printed output and the counters are before
\* the first call
Start ==
    /\ visited = {}
    /\ heap = EmptyBag
    /\ previous = [v \in Vertices |-> None]
    /\ pc = "call"
    /\ target = 0
    /\ paths = [v \in Vertices |-> NotPrinted]
    /\ runs = 1
    /\ shortest_distances = <<>>
    /\ current = None
    /\ path = <<>>
    /\ inserted = edges(matrix)
    /\ iterations = 0

\* the program at the call of line 67, after lines 6-19: n >= 2 (line 9
\* raises for n = 0 and n = 1), a zero diagonal, positive weights elsewhere,
\* and a non-zero entry in row 0 written by line 9
Init ==
    /\ n \in 2 .. MaxN
    /\ \E S \in ProgramCells(n) : \E f \in [S -> Weights] :
          matrix = MatrixOf(n, S, f)
    /\ distance_vector = FreshDistanceVector(n)
    /\ Start

\* dijkstra(matrix, distance_vector) called by any caller: a square matrix
\* of any size with entries of W anywhere (the diagonal and row 0 included),
\* or the matrix of the scenario, and the caller's list
InitWith(W) ==
    /\ \/ /\ n \in 0 .. MaxN
          /\ \E S \in EdgeCells(n) : \E f \in [S -> W] :
                matrix = MatrixOf(n, S, f)
       \/ /\ n = 4
          /\ matrix = ScenarioMatrix
    /\ distance_vector = CallerDistanceVector(n)
    /\ Start

\* direct calls on graphs with positive weights, 0 for "no edge"
InitDirect == InitWith(Weights)

\* direct calls on the graphs the function accepts: negative entries as well
InitNeg == InitWith({-1} \cup Weights)

\* dijkstra(matrix, distance_vector) is entered: lines 29-31
Call ==
    /\ pc = "call"
    /\ visited' = {}
    /\ heap' = SetToBag({<<0, Source>>})
    /\ previous' = [v \in Vertices |-> None]
    /\ paths' = [v \in Vertices |-> NotPrinted]
    /\ pc' = "loop"
    /\ UNCHANGED <<n, matrix, inserted, distance_vector, target, runs, shortest_distances>>
    /\ UNCHANGED <<current, path>>
    /\ iterations' = 0

\* a faulty variant of PopStale: break where the code has continue
PopStaleBreaks ==
    /\ pc = "loop"
    /\ heap /= EmptyBag
    /\ HeapTop(heap)[2] \in visited
    /\ heap' = HeapPopped(heap)
    /\ pc' = "recon"
    /\ target' = 0
    /\ UNCHANGED <<n, matrix, inserted, distance_vector, visited, previous,
                   paths, runs, shortest_distances>>
    /\ UNCHANGED <<current, path>>
    /\ iterations' = Tick(iterations)

\* a loop iteration that pops an entry of a visited vertex: lines 33-37
PopStale ==
    /\ pc = "loop"
    /\ heap /= EmptyBag
    /\ HeapTop(heap)[2] \in visited
    /\ heap' = HeapPopped(heap)
    /\ UNCHANGED <<n, matrix, inserted, distance_vector, visited, previous, pc, target,
                   paths, runs, shortest_distances>>
    /\ UNCHANGED <<current, path>>
    /\ iterations' = Tick(iterations)

\* a faulty variant of Finalize: the relaxation also writes alt into the
\* matrix entry of the edge
FinalizeWritesMatrix ==
    /\ pc = "loop"
    /\ heap /= EmptyBag
    /\ LET current_dist == HeapTop(heap)[1]
           u == HeapTop(heap)[2]
           vis == Visit(visited, u)
           R == Relaxed(matrix, distance_vector, vis, current_dist, u)
       IN  /\ u \notin visited
           /\ visited' = vis
           /\ distance_vector' =
                 NewDistance(matrix, distance_vector, R, current_dist, u)
           /\ previous' = NewPrevious(previous, R, u)
           /\ heap' = HeapPopped(heap) (+) Pushed(matrix, R, current_dist, u)
           /\ matrix' = [matrix EXCEPT ![u] =
                            [v \in DOMAIN matrix |->
                                IF v \in R THEN Alt(matrix, current_dist, u, v)
                                ELSE matrix[u][v]]]
    /\ UNCHANGED <<n, inserted, pc, target, paths, runs, shortest_distances>>
    /\ UNCHANGED <<current, path>>
    /\ iterations' = Tick(iterations)

\* a loop iteration that visits a vertex and relaxes its edges: lines 33-50
Finalize ==
    /\ pc = "loop"
    /\ heap /= EmptyBag
    /\ LET current_dist == HeapTop(heap)[1]
           u == HeapTop(heap)[2]
           vis == Visit(visited, u)
           R == Relaxed(matrix, distance_vector, vis, current_dist, u)
       IN  /\ u \notin visited
           /\ visited' = vis
           /\ distance_vector' =
                 NewDistance(matrix, distance_vector, R, current_dist, u)
           /\ previous' = NewPrevious(previous, R, u)
           /\ heap' = HeapPopped(heap) (+) Pushed(matrix, R, current_dist, u)
    /\ UNCHANGED <<n, matrix, inserted, pc, target, paths, runs, shortest_distances>>
    /\ UNCHANGED <<current, path>>
    /\ iterations' = Tick(iterations)

\* while heap: is false; the printing pass starts: lines 33, 52-53
ExitLoop ==
    /\ pc = "loop"
    /\ heap = EmptyBag
    /\ pc' = "recon"
    /\ target' = 0
    /\ UNCHANGED <<n, matrix, inserted, distance_vector, visited, heap, previous, paths,
                   runs, shortest_distances>>
    /\ UNCHANGED <<current, path, iterations>>

\* one iteration of for target in range(len(matrix)): lines 53-64
ReconTarget ==
    /\ pc = "recon"
    /\ target < n
    /\ IF distance_vector[target] = Inf
       THEN /\ paths' = [paths EXCEPT ![target] = Unreachable]
            /\ UNCHANGED <<current, path>>
       ELSE /\ WalkEnds(previous, Some(target), n + 1)
            /\ paths' = [paths EXCEPT ![target] =
                            [kind |-> "path", path |-> PathOf(previous, target)]]
            /\ current' = None
            /\ path' = PathOf(previous, target)
    /\ target' = target + 1
    /\ UNCHANGED <<n, matrix, inserted, iterations, distance_vector, visited,
                   heap, previous, pc,
                   runs, shortest_distances>>

\* return distance_vector; shortest_distances = dijkstra(...): lines 65, 67
Return ==
    /\ pc = "recon"
    /\ target = n
    /\ pc' = "done"
    /\ shortest_distances' = Append(shortest_distances,
            [dist |-> distance_vector, prev |-> previous, paths |-> paths])
    /\ UNCHANGED <<n, matrix, inserted, distance_vector, visited, heap, previous, target,
                   paths, runs>>
    /\ UNCHANGED <<current, path, iterations>>

\* line 67 executed again: the same matrix and the same distance_vector list
CallAgain ==
    /\ pc = "done"
    /\ runs < MaxRuns
    /\ runs' = runs + 1
    /\ pc' = "call"
    /\ UNCHANGED <<n, matrix, inserted, distance_vector, visited, heap, previous, target,
                   paths, shortest_distances>>
    /\ UNCHANGED <<current, path, iterations>>

RunStep == Call \/ PopStale \/ Finalize \/ ExitLoop \/ ReconTarget \/ Return

Next == Call \/ PopStale \/ Finalize \/ ExitLoop \/ ReconTarget \/ Return
        \/ CallAgain

\* the program: lines 6-67
Spec == Init /\ [][Next]_vars

\* dijkstra called directly
SpecDirect == InitDirect /\ [][Next]_vars

SpecNeg == InitNeg /\ [][Next]_vars

\* the interpreter keeps executing a call that was started
FairSpec == Init /\ [][Next]_vars /\ WF_vars(RunStep)

FairSpecDirect == InitDirect /\ [][Next]_vars /\ WF_vars(RunStep)

(* ---------------- the backward walk, step by step ---------------- *)

\* the printing pass of lines 53-64 with the walk of lines 58-62 taken one
\* iteration at a time, on the predecessor table the loop has built

\* distance_vector[target] == float("inf"): lines 54-56
ReconUnreachable ==
    /\ pc = "recon"
    /\ target < n
    /\ distance_vector[target] = Inf
    /\ paths' = [paths EXCEPT ![target] = Unreachable]
    /\ target' = target + 1
    /\ UNCHANGED <<n, matrix, inserted, iterations, distance_vector, visited,
                   heap, previous, pc, runs, shortest_distances, current, path>>

\* path = []; current = target: lines 58-59
WalkStart ==
    /\ pc = "recon"
    /\ target < n
    /\ distance_vector[target] /= Inf
    /\ path' = <<>>
    /\ current' = Some(target)
    /\ pc' = "walk"
    /\ UNCHANGED <<n, matrix, inserted, iterations, distance_vector, visited,
                   heap, previous, target, paths, runs, shortest_distances>>

\* one iteration of while current is not None: lines 60-62
WalkStep ==
    /\ pc = "walk"
    /\ current /= None
    /\ path' = Append(path, current[1])
    /\ current' = previous[current[1]]
    /\ UNCHANGED <<n, matrix, inserted, iterations, distance_vector, visited, heap,
                   previous, pc, target, paths, runs, shortest_distances>>

\* current is None: path.reverse(), the print of line 64 and the next target
WalkDone ==
    /\ pc = "walk"
    /\ current = None
    /\ path' = Reverse(path)
    /\ paths' = [paths EXCEPT ![target] =
                    [kind |-> "path", path |-> Reverse(path)]]
    /\ pc' = "recon"
    /\ target' = target + 1
    /\ UNCHANGED <<n, matrix, inserted, iterations, distance_vector, visited, heap,
                   previous, runs, shortest_distances, current>>

WalkNext == Call \/ PopStale \/ Finalize \/ ExitLoop \/ ReconUnreachable
            \/ WalkStart \/ WalkStep \/ WalkDone \/ Return \/ CallAgain

\* dijkstra called directly, its walk step by step
WalkSpec == InitDirect /\ [][WalkNext]_vars

(* ---------------- building the graph ---------------- *)

\* the matrix of line 8, before the assignment of line 9
BuildInit ==
    /\ n \in 2 .. MaxN
    /\ \E S \in Line8Cells(n) : \E f \in [S -> Weights] :
          matrix = MatrixOf(n, S, f)
    /\ distance_vector = FreshDistanceVector(n)
    /\ visited = {}
    /\ heap = EmptyBag
    /\ previous = [v \in Vertices |-> None]
    /\ pc = "build"
    /\ target = 0
    /\ paths = [v \in Vertices |-> NotPrinted]
    /\ runs = 1
    /\ shortest_distances = <<>>
    /\ current = None
    /\ path = <<>>
    /\ inserted = edges(matrix)
    /\ iterations = 0

\* matrix[0][random.randint(1, n-1)] = random.randint(1, 10): line 9 adds
\* the edge (0, k, w) by writing its cell
AddEdge ==
    /\ pc = "build"
    /\ \E k \in 1 .. (n - 1) : \E w \in Weights :
          /\ matrix' = [matrix EXCEPT ![0][k] = w]
          /\ inserted' = inserted \cup {<<0, k, w>>}
    /\ pc' = "call"
    /\ UNCHANGED <<n, iterations, distance_vector, visited, heap, previous, target, paths,
                   runs, shortest_distances, current, path>>

BuildNext == AddEdge \/ Next

BuildSpec == BuildInit /\ [][BuildNext]_vars

TypeOK ==
    /\ n \in 0 .. (MaxN + 1)
    /\ pc \in {"call", "loop", "recon", "done", "walk", "build"}
    /\ \A v \in Vertices : distance_vector[v] <= Inf
    /\ target \in 0 .. n
    /\ runs \in 1 .. MaxRuns
    /\ iterations \in Nat

(* ---------------- brute-force reference ---------------- *)

SetMin(S) == CHOOSE x \in S : \A y \in S : x <= y

RECURSIVE PathWeights(_, _, _, _)
\* the summed weights of all simple paths from u to t over edges(m) that
\* avoid the vertices of seen
PathWeights(m, u, t, seen) ==
    IF u = t THEN {0}
    ELSE UNION { {e[3] + s : s \in PathWeights(m, e[2], t, seen \cup {e[2]})} :
                 e \in {d \in edges(m) : d[1] = u /\ d[2] \notin seen} }

\* the summed weights of all simple paths from the source to v
SourcePaths(v) == PathWeights(matrix, Source, v, {Source})

\* the main loop of the run is over
LoopOver == pc \in {"recon", "done"}

(* ---------------- C1 ---------------- *)

\* C1: when the main loop of dijkstra is over, distance[v] of every vertex v
\* reachable from the source equals the minimum, over all source-to-v paths,
\* of the summed edge weights.
C1_ShortestDistances ==
    LoopOver =>
        \A v \in Vertices :
            SourcePaths(v) /= {} => distance_vector[v] = SetMin(SourcePaths(v))

\* the scenario graph has returned [0, 1, 2, 3]
C1_Witness ==
    /\ pc = "done"
    /\ matrix = ScenarioMatrix
    /\ distance_vector = [v \in 0 .. 3 |-> v]

(* ---------------- C2 ---------------- *)

\* the printed path p runs from the source to v over edges of the matrix
\* and its weights sum to d
RECURSIVE PathSum(_, _)
PathSum(m, p) ==
    IF Len(p) <= 1 THEN 0
    ELSE m[p[1]][p[2]] + PathSum(m, Tail(p))

ValidPath(m, p, v, d) ==
    /\ Len(p) >= 1
    /\ p[1] = Source
    /\ p[Len(p)] = v
    /\ \A x \in 1 .. (Len(p) - 1) : <<p[x], p[x + 1], m[p[x]][p[x + 1]]>> \in edges(m)
    /\ PathSum(m, p) = d

\* C2: for every vertex v reachable from the source, the path printed for v
\* starts at the source, ends at v, follows edges of the graph, and its
\* weights sum to distance[v].
C2_PathValidity ==
    pc = "done" =>
        \A v \in Vertices :
            SourcePaths(v) /= {} =>
                /\ paths[v].kind = "path"
                /\ ValidPath(matrix, paths[v].path, v, distance_vector[v])

(* ---------------- C3 ---------------- *)

\* C3: a vertex v with no path from the source keeps distance[v] = inf and
\* predecessor[v] = None throughout, and the printing pass reports it as
\* unreachable.
C3_Unreachable ==
    \A v \in Vertices :
        SourcePaths(v) = {} =>
            /\ distance_vector[v] = Inf
            /\ previous[v] = None
            /\ pc = "done" => paths[v] = Unreachable

\* a run has returned with a vertex reported unreachable
C3_Witness ==
    /\ pc = "done"
    /\ \E v \in Vertices : SourcePaths(v) = {} /\ paths[v] = Unreachable
    /\ \E v \in Vertices : v /= Source /\ SourcePaths(v) /= {}

(* ---------------- C4 ---------------- *)

\* C4: two calls in a row on the same matrix return identical distance
\* tables and identical predecessor tables, and print identical paths.
C4_Idempotent ==
    Len(shortest_distances) >= 2 =>
        /\ shortest_distances[2].dist = shortest_distances[1].dist
        /\ shortest_distances[2].prev = shortest_distances[1].prev
        /\ shortest_distances[2].paths = shortest_distances[1].paths

(* ---------------- C5 ---------------- *)

\* the state right after lines 29-31: nothing popped, nothing visited
RunStart == pc = "loop" /\ visited = {}

\* C5: every call starts from a fresh run state: distance is inf everywhere
\* except distance[source] = 0, predecessor is None everywhere, no vertex is
\* visited and the heap holds exactly (0, source).
C5_FreshRunState ==
    RunStart =>
        /\ distance_vector = FreshDistanceVector(n)
        /\ previous = [v \in Vertices |-> None]
        /\ heap = SetToBag({<<0, Source>>})

(* ---------------- C6 ---------------- *)

\* C6: in every state, on every graph, distance[source] = 0 and
\* predecessor[source] = None.
C6_SourceFixed ==
    Source \in Vertices =>
        /\ distance_vector[Source] = 0
        /\ previous[Source] = None

\* a vertex with an edge back into the source, or the source with a
\* self-loop, has been visited
C6_Witness ==
    /\ pc = "loop"
    /\ \E u \in visited : u \in Vertices /\ matrix[u][Source] /= 0
    /\ \E u \in visited : u /= Source

(* ---------------- C7 ---------------- *)

\* C7: the main loop terminates on every graph: from every state of the loop
\* the heap eventually is empty, and the run leaves the loop exactly then.
C7_Terminates ==
    /\ (pc = "loop") ~> (pc = "recon" /\ heap = EmptyBag)
    /\ [][(pc = "loop" /\ pc' /= "loop") => (heap = EmptyBag /\ pc' = "recon")]_vars
    /\ [](LoopOver => heap = EmptyBag)

\* the loop is over on a graph with a cycle through the source and a
\* self-loop
C7_Witness ==
    /\ pc = "recon"
    /\ heap = EmptyBag
    /\ \E u \in Vertices :
          /\ u /= Source
          /\ matrix[Source][u] /= 0
          /\ matrix[u][Source] /= 0
          /\ matrix[u][u] /= 0

(* ---------------- C8 ---------------- *)

\* C8: every entry of weight >= 0, weight 0 included, is an edge: it is
\* returned by the neighbour lookup of its origin and is relaxed once its
\* origin has been reached.
C8_ZeroWeightEdges ==
    pc = "done" =>
        \A i \in Vertices : \A j \in Vertices :
            (matrix[i][j] >= 0 /\ distance_vector[i] < Inf) =>
                /\ j \in neighbours(matrix, i)
                /\ distance_vector[j] <= distance_vector[i] + matrix[i][j]

(* ---------------- C9 ---------------- *)

\* C9: no run relaxes over an edge of negative weight: such an edge was
\* rejected when the graph was built.
C9_NoNegativeRelaxation ==
    \A v \in Vertices :
        previous[v] /= None => matrix[previous[v][1]][v] >= 0

(* ---------------- C10 ---------------- *)

\* C10: a call whose source is no vertex of the graph (every call on a graph
\* with V = 0) computes nothing: nothing is pushed, popped or visited.
C10_InvalidVertex ==
    Source \notin Vertices =>
        /\ pc = "call"
        /\ heap = EmptyBag
        /\ visited = {}

(* ---------------- C11 ---------------- *)

\* The walk of lines 58-62 is while current is not None, with no count of
\* its steps and no InvalidState.  previous is a local of dijkstra, written
\* only at line 48 with u visited and v not, so every table the walk is
\* given is acyclic: a walk of more than V steps, the case the bound of
\* C11 is about, is not reachable, and C11 has no formula here.  What the
\* walk does on the tables it is given:

\* the walk appends at most V vertices
WalkWithinV ==
    pc = "walk" => Len(path) <= n

\* a walk has appended V = 3 vertices and is about to end
WalkWithinVWitness ==
    /\ pc = "walk"
    /\ n = 3
    /\ Len(path) = n
    /\ current = None

(* ---------------- C12 ---------------- *)

\* C12: when several edges were added for the same ordered pair (u, v), the
\* run gives the distances of the cheapest of them: every edge that was
\* added, in whatever order, bounds the distance of its head.
C12_ParallelEdges ==
    LoopOver =>
        \A e \in inserted :
            distance_vector[e[1]] < Inf =>
                distance_vector[e[2]] <= distance_vector[e[1]] + e[3]

(* ---------------- C13 ---------------- *)

\* C13: no step of a call (pop, stale discard, finalize, relaxation, path
\* printing, return) changes the graph: the matrix and its size stay as
\* they were.
C13_GraphUnchanged ==
    [][matrix' = matrix /\ n' = n]_vars

\* a second call has returned on a graph where a two-edge path was printed
C13_Witness ==
    /\ pc = "done"
    /\ runs = 2
    /\ \E v \in Vertices : Len(shortest_distances[1].paths[v].path) = 3

(* ---------------- C14 ---------------- *)

\* the frontier invariant at the top of a loop iteration
Frontier ==
    \A v \in Vertices \ visited :
        distance_vector[v] < Inf => BagIn(<<distance_vector[v], v>>, heap)

\* C14: at the top of every loop iteration, every unvisited vertex with a
\* finite distance has the entry (distance[v], v) in the heap.
C14_FrontierInvariant ==
    pc = "loop" => Frontier

\* the same on the first call only, where the table starts fresh
FrontierFirstCall ==
    (pc = "loop" /\ runs = 1) => Frontier

(* ---------------- C15 ---------------- *)

\* C15: no step ever raises a distance: after any step, every vertex's
\* distance is at most what it was before the step.
C15_MonotonicDistances ==
    [][\A v \in Vertices : distance_vector'[v] <= distance_vector[v]]_vars

\* a distance was lowered twice: first from infinity, then to a smaller
\* finite value through another vertex
C15_Witness ==
    /\ pc = "loop"
    /\ runs = 1
    /\ \E v \in Vertices :
          /\ previous[v] /= None
          /\ previous[v] /= Some(Source)
          /\ matrix[Source][v] /= 0
          /\ distance_vector[v] < matrix[Source][v]

(* ---------------- C16 ---------------- *)

\* C16: once a vertex is visited, no later step of that call changes its
\* distance or its predecessor (the step that starts a new call is the only
\* one left out: it makes a new predecessor table).
C16_FinalizedFrozen ==
    [][pc /= "call" =>
          \A v \in visited \cap Vertices :
              /\ distance_vector'[v] = distance_vector[v]
              /\ previous'[v] = previous[v]]_vars

\* a visited vertex with an edge back into the source, which was visited
\* before it: the edge was scanned and the source's entries were left alone
C16_Witness ==
    /\ pc = "loop"
    /\ runs = 1
    /\ \E u \in visited : u /= Source /\ matrix[u][Source] /= 0

(* ---------------- C17 ---------------- *)

\* C17: within a call the visited set only grows, and it grows by exactly
\* the vertex popped, which was not visited before: no vertex is finalized
\* twice in one call.
C17_VisitedGrows ==
    [][pc /= "call" =>
          /\ visited \subseteq visited'
          /\ visited' /= visited =>
                /\ heap /= EmptyBag
                /\ HeapTop(heap)[2] \notin visited
                /\ visited' = visited \cup {HeapTop(heap)[2]}]_vars

\* the entry on top of the heap belongs to a vertex that is already visited
\* and not the source: it is about to be popped a second time
C17_Witness ==
    /\ pc = "loop"
    /\ heap /= EmptyBag
    /\ HeapTop(heap)[2] \in visited
    /\ HeapTop(heap)[2] /= Source

(* ---------------- C18 ---------------- *)

\* C18: in every step of a call and for every vertex v, previous[v] is
\* written exactly when distance_vector[v] is written in that step, and the
\* value written is the vertex popped and visited in that step.  (The step
\* that starts a call makes the new table previous = [None] * V and is not
\* an update of an entry.)
C18_PredecessorWithDistance ==
    [][pc /= "call" =>
          \A v \in Vertices :
              /\ (previous'[v] /= previous[v])
                    <=> (distance_vector'[v] /= distance_vector[v])
              /\ previous'[v] /= previous[v] =>
                    /\ pc = "loop"
                    /\ heap /= EmptyBag
                    /\ previous'[v] = Some(HeapTop(heap)[2])]_vars

\* a vertex whose distance and predecessor were both written while a vertex
\* other than the source was being visited
C18_Witness ==
    /\ pc = "loop"
    /\ runs = 1
    /\ \E v \in Vertices : \E u \in visited :
          /\ u /= Source
          /\ previous[v] = Some(u)
          /\ distance_vector[v] = distance_vector[u] + matrix[u][v]

(* ---------------- C19 ---------------- *)

\* C19: a loop iteration that pops an entry of an already visited vertex
\* removes that one entry from the heap and changes nothing else: distances,
\* predecessors and the visited set stay, nothing is pushed, and the loop
\* goes on.
C19_LazyDeletion ==
    [][(pc = "loop" /\ heap /= EmptyBag /\ HeapTop(heap)[2] \in visited) =>
          /\ heap' = HeapPopped(heap)
          /\ BagCardinality(heap') = BagCardinality(heap) - 1
          /\ UNCHANGED <<distance_vector, previous, visited, pc>>]_vars

\* the loop of the first call has emptied the heap, and some vertex had an
\* entry for its direct edge from the source that was dearer than its final
\* distance: that entry was popped after the vertex was visited
C19_Witness ==
    /\ pc = "loop"
    /\ runs = 1
    /\ heap = EmptyBag
    /\ \E v \in visited \cap Vertices :
          /\ matrix[Source][v] /= 0
          /\ distance_vector[v] < matrix[Source][v]

(* ---------------- C20 ---------------- *)

\* the matrix without its self-loops
NoLoops(m) ==
    [i \in DOMAIN m |-> [j \in DOMAIN m |-> IF i = j THEN 0 ELSE m[i][j]]]

\* the while loop of lines 33-49 as a function of its state
RECURSIVE RunLoop(_, _, _, _, _)
RunLoop(m, dv, vis, h, prev) ==
    IF h = EmptyBag
    THEN [dist |-> dv, prev |-> prev]
    ELSE LET current_dist == HeapTop(h)[1]
             u == HeapTop(h)[2]
             vis2 == Visit(vis, u)
             R == Relaxed(m, dv, vis2, current_dist, u)
         IN  IF u \in vis
             THEN RunLoop(m, dv, vis, HeapPopped(h), prev)
             ELSE RunLoop(m, NewDistance(m, dv, R, current_dist, u), vis2,
                          HeapPopped(h) (+) Pushed(m, R, current_dist, u),
                          NewPrevious(prev, R, u))

\* def dijkstra(matrix, distance_vector): the tables after the loop
dijkstra(m, dv) ==
    RunLoop(m, dv, {}, SetToBag({<<0, Source>>}), [v \in DOMAIN m |-> None])

\* the tables after the k-th call in a row on the same distance_vector list
RECURSIVE Calls(_, _, _)
Calls(m, dv, k) ==
    IF k = 1 THEN dijkstra(m, dv)
    ELSE dijkstra(m, Calls(m, dv, k - 1).dist)

\* the step that visits a vertex u with a self-loop leaves u's own entries
\* alone and pushes no entry for u
SelfLoopStep ==
    (/\ pc = "loop"
     /\ heap /= EmptyBag
     /\ HeapTop(heap)[2] \notin visited
     /\ HeapTop(heap)[2] \in Vertices
     /\ matrix[HeapTop(heap)[2]][HeapTop(heap)[2]] /= 0)
    => LET u == HeapTop(heap)[2]
       IN  /\ distance_vector'[u] = distance_vector[u]
           /\ previous'[u] = previous[u]
           /\ \A e \in BagToSet(heap') :
                 e[2] = u => CopiesIn(e, heap') <= CopiesIn(e, HeapPopped(heap))

\* C20: a self-loop at u never changes distance_vector[u] or previous[u] and
\* never pushes an entry, and when the loop of a call is over the distance
\* and predecessor tables are those of the same calls on the matrix with
\* its self-loops removed.
C20_SelfLoops ==
    /\ [](LoopOver =>
            LET r == Calls(NoLoops(matrix), CallerDistanceVector(n), runs)
            IN  distance_vector = r.dist /\ previous = r.prev)
    /\ [][SelfLoopStep]_vars

\* the loop is over on a graph where the source and another visited vertex
\* both have a self-loop
C20_Witness ==
    /\ pc = "recon"
    /\ runs = 1
    /\ n >= 2
    /\ matrix[Source][Source] /= 0
    /\ \E u \in visited : u /= Source /\ matrix[u][u] /= 0

(* ---------------- C21 ---------------- *)

\* C21: whenever the entry about to be popped belongs to a vertex u that is
\* not visited, its key equals distance_vector[u], so the relaxation with
\* the popped key is the relaxation with the table entry; a key larger than
\* distance_vector[u] only belongs to a visited vertex.
C21_PoppedKeyIsDistance ==
    (pc = "loop" /\ heap /= EmptyBag /\ HeapTop(heap)[2] \in Vertices) =>
        LET current_dist == HeapTop(heap)[1]
            u == HeapTop(heap)[2]
            vis == Visit(visited, u)
        IN  /\ u \notin visited =>
                  /\ current_dist = distance_vector[u]
                  /\ Relaxed(matrix, distance_vector, vis, current_dist, u)
                       = Relaxed(matrix, distance_vector, vis,
                                 distance_vector[u], u)
            /\ current_dist > distance_vector[u] => u \in visited

\* the entry on top belongs to an unvisited vertex other than the source,
\* and the heap holds a second, dearer entry for the same vertex
C21_Witness ==
    /\ pc = "loop"
    /\ heap /= EmptyBag
    /\ HeapTop(heap)[2] \notin visited
    /\ HeapTop(heap)[2] /= Source
    /\ \E e \in BagToSet(heap) :
          e[2] = HeapTop(heap)[2] /\ e[1] > HeapTop(heap)[1]

(* ---------------- C22 ---------------- *)

\* every predecessor p of a vertex v is visited, the matrix has the edge
\* (p, v) and distance_vector[v] = distance_vector[p] + matrix[p][v]
PredecessorEdges ==
    \A v \in Vertices :
        previous[v] /= None =>
            LET p == previous[v][1]
            IN  /\ p \in visited
                /\ matrix[p][v] /= 0
                /\ distance_vector[v] = distance_vector[p] + matrix[p][v]

\* a predecessor is written for a vertex that is not visited, naming the
\* vertex visited in that step: p is finalized before v
PredecessorFirst ==
    \A v \in Vertices :
        (previous'[v] /= previous[v] /\ previous'[v] /= None) =>
            /\ previous'[v][1] \in visited'
            /\ v \notin visited'

\* the backward walk from a vertex with a finite distance ends, at the
\* source, after at most V - 1 steps
WalkReachesSource ==
    \A v \in Vertices :
        distance_vector[v] < Inf =>
            /\ WalkEnds(previous, Some(v), n)
            /\ Len(PathOf(previous, v)) <= n
            /\ PathOf(previous, v)[1] = Source

\* the first half of C22 alone
PredecessorSound ==
    []PredecessorEdges /\ [][PredecessorFirst]_vars

\* C22: in every state and for every vertex v with a predecessor p, p is
\* visited and was finalized before v, (p, v) is an edge of the graph and
\* distance_vector[v] = distance_vector[p] + weight(p, v); so the table has
\* no cycle and the backward walk from any reached vertex arrives at the
\* source in at most V - 1 steps.
C22_PredecessorInvariant ==
    /\ [](PredecessorEdges /\ WalkReachesSource)
    /\ [][PredecessorFirst]_vars

\* the same on the first call only
PredecessorInvariantFirstCall ==
    [](runs = 1 => PredecessorEdges /\ WalkReachesSource)

(* ---------------- C23 ---------------- *)

\* the distance table the current call returns
FinalDistance == Calls(matrix, CallerDistanceVector(n), runs).dist

\* the step that visits v: every vertex visited before it has a final
\* distance that is not larger, and every key pushed is at least the key
\* popped
FinalizeInOrder ==
    (/\ pc = "loop"
     /\ heap /= EmptyBag
     /\ HeapTop(heap)[2] \notin visited
     /\ HeapTop(heap)[2] \in Vertices)
    => LET current_dist == HeapTop(heap)[1]
           v == HeapTop(heap)[2]
       IN  /\ \A u \in visited : FinalDistance[u] <= FinalDistance[v]
           /\ \A e \in BagToSet(heap') :
                 CopiesIn(e, heap') > CopiesIn(e, HeapPopped(heap)) =>
                     e[1] >= current_dist

\* C23: with non-negative weights the vertices are visited in
\* non-decreasing order of their final distance, and every key pushed
\* while u is being visited is at least the key u was popped with.
C23_FinalizeOrder ==
    /\ [][FinalizeInOrder]_vars
    /\ [](pc = "loop" =>
            \A u \in visited \cap Vertices : \A v \in Vertices \ visited :
                distance_vector[u] <= distance_vector[v])

\* the loop of the first call has visited three vertices whose distances
\* are all different
C23_Witness ==
    /\ pc = "loop"
    /\ runs = 1
    /\ \E u, v \in visited \cap Vertices :
          /\ 0 < distance_vector[u]
          /\ distance_vector[u] < distance_vector[v]
          /\ previous[v] = Some(u)

(* ---------------- C24 ---------------- *)

\* E, the number of edges of the graph
EdgeCount == Cardinality(edges(matrix))

\* entries are pushed only by the step that visits a vertex, at most one
\* for each of its outgoing edges
PushesPerVisit ==
    (pc = "loop" /\ heap /= EmptyBag) =>
        LET u == HeapTop(heap)[2]
            pushed == BagCardinality(heap') - BagCardinality(HeapPopped(heap))
        IN  /\ iterations' = iterations + 1
            /\ pushed >= 0
            /\ pushed > 0 => u \notin visited /\ u \in visited'
            /\ pushed <= Cardinality(neighbours(matrix, u))

\* C24: in every call the entries pushed so far (those popped and those
\* still in the heap) are at most E + 1, one per edge and the source's
\* entry, pushed only by the step that visits the edge's tail; so the loop
\* runs at most E + 1 times.
C24_FrontierBounded ==
    /\ [](pc \in {"loop", "recon", "done"} =>
            /\ iterations + BagCardinality(heap) <= EdgeCount + 1
            /\ iterations <= EdgeCount + 1
            /\ iterations < n * n + 2)
    /\ [][PushesPerVisit]_vars

\* the loop has ended after exactly E + 1 iterations on a graph of three
\* edges: every edge has pushed an entry
C24_Witness ==
    /\ pc = "recon"
    /\ EdgeCount = 3
    /\ iterations = EdgeCount + 1

\* the step-by-step walk and the walk of ReconTarget print the same path
WalkAgrees ==
    \A t \in Vertices :
        (pc \in {"recon", "done"} /\ paths[t].kind = "path") =>
            paths[t].path = PathOf(previous, t)
====
